---- MODULE Spec2Model ----
(***************************************************************************)
(* Model of exporter/asyncexporter/exporter.go: the asynchronous log       *)
(* exporter (Exporter.Start, Shutdown, ExportLogs, exportBatches,          *)
(* exportLogsInternal, indefiniteBackgroundConnection, connect,            *)
(* enableConnections).                                                     *)
(*                                                                         *)
(* Every goroutine is a process with a program counter.  One action is one *)
(* atomic synchronisation step of the Go code: a channel operation, an     *)
(* atomic load/store, a WaitGroup operation, or a whole critical section   *)
(* of e.mu.  An unrecovered panic terminates the Go program: it is         *)
(* recorded in `panicked` and disables every action.                       *)
(***************************************************************************)
EXTENDS Integers, Sequences, FiniteSets, TLC

\* ---------------------------------------------------------------- bounds
MaxConcurrency == 2      \* largest configured e.c.concurrency explored
NumBatches == 3          \* ExportLogs calls made over a run
MaxBatchLen == 1         \* largest len(logs) of a submitted batch
NumHandles == 2          \* successful dials over a run
NumStartCalls == 2       \* Start calls made over a run
NumShutdownCalls == 2    \* Shutdown calls made over a run
MaxGoroutines == 5       \* export workers plus calling goroutines over a run
MaxDetails == 2          \* most details attached to a status given to retryable
MaxDelay == 2            \* largest RetryDelay attached, in time units

Batches == 1..NumBatches
Handles == 1..NumHandles
Workers == 1..(MaxConcurrency + 1)
StartCallers == 1..NumStartCalls
ShutdownCallers == 1..NumShutdownCalls
ConnThreads == {"start", "reconn"}

\* the message of the runtime error raised by a send on a closed channel
SendOnClosedMsg == "send on closed channel"
\* the message ExportLogs compares the recovered error with (line 124)
RecoveredMsg == "send on closed channel logsBatchCh"

VARIABLES
  concurrency,      \* e.c.concurrency
  started,          \* e.started
  startOnce,        \* e.startOnce: "fresh", "running", "done"
  startpc,          \* per Start call: position
  startRet,         \* per Start call: returned error
  workersLaunched,  \* loop variable i of Start's worker loop
  reconnLaunches,   \* number of `go e.indefiniteBackgroundConnection()`
  initCount,        \* number of times Start's initialisation ran
  logsBatchCh,      \* buffered contents of e.logsBatchCh
  chMade,           \* e.logsBatchCh has been made
  chClosed,         \* e.logsBatchCh is closed
  stopCh,           \* e.stopCh is closed
  disconnectedCh,   \* number of values buffered in e.disconnectedCh (cap 1)
  lastConnectErr,   \* *e.lastConnectErrPtr: "nil" or "err"
  grpcClientConn,   \* e.grpcClientConn / e.logExporter: 0 is nil
  nextHandle,       \* handles dialled so far
  closedHandles,    \* handles on which Close has been called
  mureaders,        \* workers holding e.mu.RLock
  wait,             \* e.wait counter
  cn,               \* connect()/enableConnections() frame of a thread
  rpc,              \* reconnector position
  wpc,              \* per worker: position
  wcur,             \* per worker: batch being exported (0 none)
  wctx,             \* per worker: the attempt's ctx is cancelled
  werr,             \* per worker: error of the attempt
  whandle,          \* per worker: handle the in-flight Export uses
  nextBatch,        \* batches handed to ExportLogs so far
  size,             \* per batch: len(batch)
  ppc,              \* per batch (one ExportLogs call each): position
  pret,             \* per batch: what ExportLogs returned
  dequeues,         \* per batch: times received from logsBatchCh
  acked,            \* per batch: collector acknowledged success
  observed,         \* per batch: sequence of counter labels added
  sdpc,             \* per Shutdown call: position
  sdcc,             \* per Shutdown call: local cc
  sdstarted,        \* per Shutdown call: local started
  sdlate,           \* per Shutdown call: made after a Start call returned nil
  sderr,            \* per Shutdown call: local err
  sdret,            \* per Shutdown call: returned error
  sdctx,            \* per Shutdown call: ctx.Done() is ready
  atClose,          \* batches buffered when logsBatchCh was closed
  calls,            \* Start, Shutdown and ExportLogs calls made so far
  panicked,         \* "none" or the panic that ended the program
  errCode,          \* retryable: s.Code() of the error given to it
  errDetails,       \* retryable: s.Details() of the error given to it
  retried,          \* retryable has been called and has returned
  retOk,            \* retryable: the bool it returned
  retWait           \* retryable: the duration it returned

cfgVars == <<concurrency>>
callVars == <<calls>>
startVars == <<started, startOnce, startpc, startRet, workersLaunched,
               reconnLaunches, initCount>>
chanVars == <<logsBatchCh, chMade, chClosed, stopCh, disconnectedCh>>
connVars == <<lastConnectErr, grpcClientConn, nextHandle, closedHandles,
              mureaders, cn>>
workVars == <<wait, wpc, wcur, wctx, werr, whandle>>
batchVars == <<nextBatch, size, ppc, pret, dequeues, acked,
               observed, atClose>>
sdVars == <<sdpc, sdcc, sdstarted, sdlate, sderr, sdret, sdctx>>

retryVars == <<errCode, errDetails, retried, retOk, retWait>>

vars == <<cfgVars, startVars, chanVars, connVars, workVars, batchVars,
          sdVars, rpc, calls, panicked, retryVars>>

Running == panicked = "none"

\* capacity of logsBatchCh: make(chan ..., 2*e.c.concurrency)
QueueCap(c) == 2 * c

\* a worker loop that runs one iteration too many
NumWorkersOffByOne(c) == c + 1

\* Start 222: the bound of the worker loop, i < e.c.concurrency
NumWorkersToLaunch(c) == c

\* a health check that always reports connected
connectedAlways == TRUE

\* e.connected(): lastConnectError() == nil
connected == lastConnectErr = "nil"

\* a goroutine is parked in e.mu.Lock(): new RLock calls block behind it
WriterWaiting ==
  \/ \E t \in ConnThreads : cn[t].at = "ecWait"
  \/ \E s \in ShutdownCallers : sdpc[s] = "lockWait"

CanRLock == ~WriterWaiting
CanLock == mureaders = {}

\* the exporter as NewUnstartedExporter (94-102) leaves it; also what is
\* left of the program once a panic has ended it
Fresh ==
  /\ started = FALSE
  /\ startOnce = "fresh"
  /\ startpc = [s \in StartCallers |-> "idle"]
  /\ startRet = [s \in StartCallers |-> "none"]
  /\ workersLaunched = 0
  /\ reconnLaunches = 0
  /\ initCount = 0
  /\ logsBatchCh = <<>>
  /\ chMade = FALSE
  /\ chClosed = FALSE
  /\ stopCh = FALSE
  /\ disconnectedCh = 0
  /\ lastConnectErr = "nil"
  /\ grpcClientConn = 0
  /\ nextHandle = 0
  /\ closedHandles = {}
  /\ mureaders = {}
  /\ wait = 0
  /\ cn = [t \in ConnThreads |-> [at |-> "off", cc |-> 0, err |-> "nil"]]
  /\ rpc = "off"
  /\ wpc = [w \in Workers |-> "off"]
  /\ wcur = [w \in Workers |-> 0]
  /\ wctx = [w \in Workers |-> FALSE]
  /\ werr = [w \in Workers |-> "nil"]
  /\ whandle = [w \in Workers |-> 0]
  /\ nextBatch = 0
  /\ size = [b \in Batches |-> 0]
  /\ ppc = [b \in Batches |-> "idle"]
  /\ pret = [b \in Batches |-> "none"]
  /\ dequeues = [b \in Batches |-> 0]
  /\ acked = [b \in Batches |-> FALSE]
  /\ observed = [b \in Batches |-> <<>>]
  /\ sdpc = [s \in ShutdownCallers |-> "idle"]
  /\ sdcc = [s \in ShutdownCallers |-> 0]
  /\ sdstarted = [s \in ShutdownCallers |-> FALSE]
  /\ sdlate = [s \in ShutdownCallers |-> FALSE]
  /\ sderr = [s \in ShutdownCallers |-> "nil"]
  /\ sdret = [s \in ShutdownCallers |-> "none"]
  /\ sdctx = [s \in ShutdownCallers |-> FALSE]
  /\ atClose = {}

\* retryable has not been called
NoRetryCall ==
  /\ errCode = "OK"
  /\ errDetails = <<>>
  /\ retried = FALSE
  /\ retOk = FALSE
  /\ retWait = 0

Init ==
  /\ concurrency \in 1..MaxConcurrency
  /\ Fresh
  /\ calls = 0
  /\ panicked = "none"
  /\ NoRetryCall

\* an unrecovered panic ends the program with all its goroutines
Crash(msg) ==
  /\ panicked' = msg
  /\ calls' = 0
  /\ UNCHANGED concurrency
  /\ started' = FALSE
  /\ startOnce' = "fresh"
  /\ startpc' = [s \in StartCallers |-> "idle"]
  /\ startRet' = [s \in StartCallers |-> "none"]
  /\ workersLaunched' = 0
  /\ reconnLaunches' = 0
  /\ initCount' = 0
  /\ logsBatchCh' = <<>>
  /\ chMade' = FALSE
  /\ chClosed' = FALSE
  /\ stopCh' = FALSE
  /\ disconnectedCh' = 0
  /\ lastConnectErr' = "nil"
  /\ grpcClientConn' = 0
  /\ nextHandle' = 0
  /\ closedHandles' = {}
  /\ mureaders' = {}
  /\ wait' = 0
  /\ cn' = [t \in ConnThreads |-> [at |-> "off", cc |-> 0, err |-> "nil"]]
  /\ rpc' = "off"
  /\ wpc' = [w \in Workers |-> "off"]
  /\ wcur' = [w \in Workers |-> 0]
  /\ wctx' = [w \in Workers |-> FALSE]
  /\ werr' = [w \in Workers |-> "nil"]
  /\ whandle' = [w \in Workers |-> 0]
  /\ nextBatch' = 0
  /\ size' = [b \in Batches |-> 0]
  /\ ppc' = [b \in Batches |-> "idle"]
  /\ pret' = [b \in Batches |-> "none"]
  /\ dequeues' = [b \in Batches |-> 0]
  /\ acked' = [b \in Batches |-> FALSE]
  /\ observed' = [b \in Batches |-> <<>>]
  /\ sdpc' = [s \in ShutdownCallers |-> "idle"]
  /\ sdcc' = [s \in ShutdownCallers |-> 0]
  /\ sdstarted' = [s \in ShutdownCallers |-> FALSE]
  /\ sdlate' = [s \in ShutdownCallers |-> FALSE]
  /\ sderr' = [s \in ShutdownCallers |-> "nil"]
  /\ sdret' = [s \in ShutdownCallers |-> "none"]
  /\ sdctx' = [s \in ShutdownCallers |-> FALSE]
  /\ atClose' = {}


\* ------------------------------------------------ health state (343-361)
\* saveLastConnectError 355-361: atomic.StorePointer of a pointer to err,
\* of the nil pointer for a nil err; every reader (104-114) looks only at
\* whether the stored error is nil
saveLastConnectError(err) ==
  lastConnectErr' = IF err = "nil" THEN "nil" ELSE "err"

\* a setStateDisconnected that stores the error and signals nothing
SignalDropped(n) == n

\* the non-blocking send of setStateDisconnected (349-352) on a channel
\* of capacity 1: the value is dropped when one is already buffered
SignalDisconnected(n) == IF n < 1 THEN n + 1 ELSE n

\* ------------------------------------------- connect / enableConnections
\* connect 363-369 begins: dialToCollector (378-400) returns a new
\* *grpc.ClientConn, or an error that connect returns
Dialed(t, ok) ==
  IF ok
  THEN /\ nextHandle < NumHandles
       /\ nextHandle' = nextHandle + 1
       /\ cn' = [cn EXCEPT ![t] = [at |-> "ecRead", cc |-> nextHandle + 1,
                                   err |-> "nil"]]
  ELSE /\ cn' = [cn EXCEPT ![t] = [at |-> "ret", cc |-> 0,
                                   err |-> "dialErr"]]
       /\ UNCHANGED nextHandle

\* enableConnections 410-416: read e.started under RLock
EcRead(t) ==
  /\ Running
  /\ UNCHANGED retryVars
  /\ cn[t].at = "ecRead"
  /\ CanRLock
  /\ cn' = [cn EXCEPT ![t] =
              IF started THEN [@ EXCEPT !.at = "ecLock"]
              ELSE [@ EXCEPT !.at = "ret", !.err = "errNotStarted"]]
  /\ UNCHANGED <<cfgVars, calls, startVars, chanVars, lastConnectErr,
                 grpcClientConn, nextHandle, closedHandles, mureaders,
                 workVars, batchVars, sdVars, rpc, panicked>>

\* the handles closed by the swap of enableConnections (422-429)
SwapCloses(cur, cc) == IF cur # cc /\ cur # 0 THEN {cur} ELSE {}

\* enableConnections 418-434: the critical section under e.mu.Lock
Install(t) ==
  /\ closedHandles' = closedHandles \cup SwapCloses(grpcClientConn, cn[t].cc)
  /\ grpcClientConn' = cn[t].cc
  /\ cn' = [cn EXCEPT ![t] = [@ EXCEPT !.at = "ret", !.err = "nil"]]

\* enableConnections 418: e.mu.Lock() is called; it is granted at once
\* when no reader holds the lock, otherwise the goroutine parks
EcLock(t) ==
  /\ Running
  /\ UNCHANGED retryVars
  /\ cn[t].at = "ecLock"
  /\ IF CanLock THEN Install(t)
     ELSE /\ cn' = [cn EXCEPT ![t] = [@ EXCEPT !.at = "ecWait"]]
          /\ UNCHANGED <<grpcClientConn, closedHandles>>
  /\ UNCHANGED <<cfgVars, calls, startVars, chanVars, lastConnectErr, nextHandle,
                 mureaders, workVars, batchVars, sdVars, rpc, panicked>>

\* enableConnections 418: the parked e.mu.Lock() is granted
EcWait(t) ==
  /\ Running
  /\ UNCHANGED retryVars
  /\ cn[t].at = "ecWait"
  /\ CanLock
  /\ Install(t)
  /\ UNCHANGED <<cfgVars, calls, startVars, chanVars, lastConnectErr, nextHandle,
                 mureaders, workVars, batchVars, sdVars, rpc, panicked>>

\* ------------------------------------------------------- Start (194-232)
\* a guard that admits the body again once it has finished
OnceAdmitsAgain(once) == once # "running"

\* Start 196: sync.Once admits the body only for the first call
OnceAdmits(once) == once = "fresh"

\* Start 194-214: startOnce.Do entered; the first call runs the
\* initialisation under e.mu.Lock and dials (connect 364), a call made
\* while the body runs parks in Do, a call made after it returns
\* errAlreadyStarted
StartCall(s) ==
  /\ Running
  /\ UNCHANGED retryVars
  /\ startpc[s] = "idle"
  /\ \A s2 \in StartCallers : s2 < s => startpc[s2] # "idle"
  /\ calls + concurrency < MaxGoroutines
  /\ calls' = calls + 1
  /\ IF OnceAdmits(startOnce)
     THEN /\ startOnce' = "running"
          /\ started' = TRUE
          /\ initCount' = initCount + 1
          /\ disconnectedCh' = 0
          /\ stopCh' = FALSE
          /\ logsBatchCh' = <<>>
          /\ chMade' = TRUE
          /\ chClosed' = FALSE
          /\ workersLaunched' = 0
          /\ \E ok \in BOOLEAN : Dialed("start", ok)
          /\ startpc' = [startpc EXCEPT ![s] = "connect"]
          /\ UNCHANGED startRet
     ELSE /\ IF startOnce = "running"
             THEN /\ startpc' = [startpc EXCEPT ![s] = "onceWait"]
                  /\ UNCHANGED startRet
             ELSE /\ startpc' = [startpc EXCEPT ![s] = "done"]
                  /\ startRet' = [startRet EXCEPT ![s] = "errAlreadyStarted"]
          /\ UNCHANGED <<startOnce, started, initCount, disconnectedCh,
                         stopCh, logsBatchCh, chMade, chClosed,
                         workersLaunched, cn, nextHandle>>
  /\ UNCHANGED <<cfgVars, reconnLaunches, lastConnectErr, grpcClientConn,
                 closedHandles, mureaders, workVars, batchVars,
                 sdVars, rpc, panicked>>

\* Start 196, 231: a call parked in startOnce.Do resumes when the body
\* has finished and returns its own err, still errAlreadyStarted
StartOnceWait(s) ==
  /\ Running
  /\ UNCHANGED retryVars
  /\ startpc[s] = "onceWait"
  /\ startOnce = "done"
  /\ startpc' = [startpc EXCEPT ![s] = "done"]
  /\ startRet' = [startRet EXCEPT ![s] = "errAlreadyStarted"]
  /\ UNCHANGED <<cfgVars, calls, started, startOnce, workersLaunched,
                 reconnLaunches, initCount, chanVars, connVars, workVars,
                 batchVars, sdVars, rpc, panicked>>

\* Start 214-218: connect() returned; setStateConnected, or the store of
\* setStateDisconnected
StartSetState(s) ==
  /\ Running
  /\ UNCHANGED retryVars
  /\ startpc[s] = "connect"
  /\ cn["start"].at = "ret"
  /\ saveLastConnectError(cn["start"].err)
  /\ startpc' = [startpc EXCEPT ![s] =
                   IF cn["start"].err = "nil" THEN "goReconn" ELSE "discSend"]
  /\ cn' = [cn EXCEPT !["start"] = [@ EXCEPT !.at = "off"]]
  /\ UNCHANGED <<cfgVars, calls, started, startOnce, startRet, workersLaunched,
                 reconnLaunches, initCount, chanVars, grpcClientConn,
                 nextHandle, closedHandles, mureaders, workVars, batchVars,
                 sdVars, rpc, panicked>>

\* Start 217 -> setStateDisconnected 349-352: the non-blocking send
StartDiscSend(s) ==
  /\ Running
  /\ UNCHANGED retryVars
  /\ startpc[s] = "discSend"
  /\ disconnectedCh' = SignalDisconnected(disconnectedCh)
  /\ startpc' = [startpc EXCEPT ![s] = "goReconn"]
  /\ UNCHANGED <<cfgVars, calls, started, startOnce, startRet, workersLaunched,
                 reconnLaunches, initCount, logsBatchCh, chMade, chClosed,
                 stopCh, connVars, workVars,
                 batchVars, sdVars, rpc, panicked>>

\* Start 219: go e.indefiniteBackgroundConnection()
StartGoReconn(s) ==
  /\ Running
  /\ UNCHANGED retryVars
  /\ startpc[s] = "goReconn"
  /\ rpc' = "select"
  /\ reconnLaunches' = reconnLaunches + 1
  /\ startpc' = [startpc EXCEPT ![s] = "goWorkers"]
  /\ UNCHANGED <<cfgVars, calls, started, startOnce, startRet, workersLaunched,
                 initCount, chanVars, connVars, workVars, batchVars, sdVars,
                 panicked>>

\* Start 222-228: one iteration of the worker loop, e.wait.Add(1) and the
\* go statement
StartGoWorker(s) ==
  /\ Running
  /\ UNCHANGED retryVars
  /\ startpc[s] = "goWorkers"
  /\ workersLaunched < NumWorkersToLaunch(concurrency)
  /\ workersLaunched + 1 \in Workers
  /\ wpc[workersLaunched + 1] = "off"
  /\ wait' = wait + 1
  /\ wpc' = [wpc EXCEPT ![workersLaunched + 1] = "recv"]
  /\ workersLaunched' = workersLaunched + 1
  /\ UNCHANGED <<cfgVars, calls, started, startOnce, startpc, startRet,
                 reconnLaunches, initCount, chanVars, connVars, wcur, wctx,
                 werr, whandle, batchVars, sdVars, rpc, panicked>>

\* Start 221, 229-231: the loop is over, Do returns, Start returns nil
StartReturn(s) ==
  /\ Running
  /\ UNCHANGED retryVars
  /\ startpc[s] = "goWorkers"
  /\ workersLaunched >= NumWorkersToLaunch(concurrency)
  /\ startOnce' = "done"
  /\ startpc' = [startpc EXCEPT ![s] = "done"]
  /\ startRet' = [startRet EXCEPT ![s] = "nil"]
  /\ UNCHANGED <<cfgVars, calls, started, workersLaunched, reconnLaunches,
                 initCount, chanVars, connVars, workVars, batchVars, sdVars,
                 rpc, panicked>>

\* ----------------------------- indefiniteBackgroundConnection (294-341)
\* 317-325: the select on stopCh and disconnectedCh; on a disconnect
\* signal connect (364) dials
ReconnSelect ==
  /\ Running
  /\ UNCHANGED retryVars
  /\ rpc = "select"
  /\ \/ /\ stopCh
        /\ rpc' = "sendDone"
        /\ UNCHANGED <<disconnectedCh, cn, nextHandle>>
     \/ /\ disconnectedCh > 0
        /\ disconnectedCh' = disconnectedCh - 1
        /\ rpc' = "connect"
        /\ \E ok \in BOOLEAN : Dialed("reconn", ok)
  /\ UNCHANGED <<cfgVars, calls, startVars, logsBatchCh, chMade, chClosed,
                 stopCh, lastConnectErr,
                 grpcClientConn, closedHandles, mureaders,
                 workVars, batchVars, sdVars, panicked>>

\* a loop that goes back to the select at once after a successful redial
AfterRedialDirect(err) == IF err = "nil" THEN "select" ELSE "discSend"

\* 325-339: after setStateConnected the loop goes on to the jittered
\* sleep; after the store of setStateDisconnected comes its send (and
\* then the same sleep)
AfterRedial(err) == IF err = "nil" THEN "sleep" ELSE "discSend"

\* 325-329: connect() returned; setStateConnected, or the store of
\* setStateDisconnected
ReconnSetState ==
  /\ Running
  /\ UNCHANGED retryVars
  /\ rpc = "connect"
  /\ cn["reconn"].at = "ret"
  /\ saveLastConnectError(cn["reconn"].err)
  /\ rpc' = AfterRedial(cn["reconn"].err)
  /\ cn' = [cn EXCEPT !["reconn"] = [@ EXCEPT !.at = "off"]]
  /\ UNCHANGED <<cfgVars, calls, startVars, chanVars, grpcClientConn, nextHandle,
                 closedHandles, mureaders, workVars, batchVars, sdVars,
                 panicked>>

\* 328 -> setStateDisconnected 349-352: the non-blocking send
ReconnDiscSend ==
  /\ Running
  /\ UNCHANGED retryVars
  /\ rpc = "discSend"
  /\ disconnectedCh' = SignalDisconnected(disconnectedCh)
  /\ rpc' = "sleep"
  /\ UNCHANGED <<cfgVars, calls, startVars, logsBatchCh, chMade, chClosed,
                 stopCh, connVars, workVars,
                 batchVars, sdVars, panicked>>

\* 334-339: the select on stopCh and the jittered timer
ReconnSleep ==
  /\ Running
  /\ UNCHANGED retryVars
  /\ rpc = "sleep"
  /\ \/ /\ stopCh
        /\ rpc' = "sendDone"
     \/ rpc' = "select"
  /\ UNCHANGED <<cfgVars, calls, startVars, chanVars, connVars, workVars,
                 batchVars, sdVars, panicked>>


\* --------------------------------------------------- ExportLogs (117-135)
\* the deferred recover of ExportLogs (118-129) swallows the panic only
\* when the runtime error's message equals the expected text
Recovers(msg) == msg = RecoveredMsg

\* the outcome of `e.logsBatchCh <- batch` (133) on a closed channel when
\* the deferred function recovers: ExportLogs returns its zero result
SendOnClosed(b) ==
  /\ ppc' = [ppc EXCEPT ![b] = "done"]
  /\ pret' = [pret EXCEPT ![b] = "nil"]

\* the send of line 133 completes: the batch is buffered, ExportLogs
\* returns nil (134)
SendCompletes(b) ==
  /\ logsBatchCh' = Append(logsBatchCh, b)
  /\ ppc' = [ppc EXCEPT ![b] = "done"]
  /\ pret' = [pret EXCEPT ![b] = "nil"]

\* the send of line 133 may complete at once
HasRoom(q, c) == Len(q) < QueueCap(c)

\* ExportLogs 117-135, a call with a batch of n records.  On an exporter
\* whose Start has not run, logsBatchPool has no New: getBatchSlice (438)
\* dereferences a nil pointer, which the deferred function panics again.
\* A send on the closed channel panics; the deferred function panics
\* again unless it recognises the message.
ExportLogs(b, n) ==
  /\ Running
  /\ UNCHANGED retryVars
  /\ b = nextBatch + 1
  /\ ppc[b] = "idle"
  /\ calls + concurrency < MaxGoroutines
  /\ IF ~chMade
     THEN Crash("nil pointer dereference")
     ELSE IF chClosed /\ ~Recovers(SendOnClosedMsg)
     THEN Crash(SendOnClosedMsg)
     ELSE /\ nextBatch' = b
          /\ calls' = calls + 1
          /\ size' = [size EXCEPT ![b] = n]
          /\ IF chClosed
             THEN SendOnClosed(b) /\ UNCHANGED logsBatchCh
             ELSE IF HasRoom(logsBatchCh, concurrency)
             THEN SendCompletes(b)
             ELSE /\ ppc' = [ppc EXCEPT ![b] = "blocked"]
                  /\ UNCHANGED <<pret, logsBatchCh>>
          /\ UNCHANGED <<cfgVars, startVars, chMade, chClosed, stopCh, disconnectedCh, connVars,
                         workVars, dequeues, acked, observed,
                         atClose,
                         sdVars, rpc, panicked>>

\* ExportLogs 133: a caller parked in the send is woken, by room in the
\* buffer or by the close of the channel
ExportLogsWake(b) ==
  /\ Running
  /\ UNCHANGED retryVars
  /\ ppc[b] = "blocked"
  /\ chClosed \/ HasRoom(logsBatchCh, concurrency)
  /\ IF chClosed /\ ~Recovers(SendOnClosedMsg)
     THEN Crash(SendOnClosedMsg)
     ELSE /\ IF chClosed
             THEN SendOnClosed(b) /\ UNCHANGED logsBatchCh
             ELSE SendCompletes(b)
          /\ UNCHANGED <<cfgVars, calls, startVars, chMade, chClosed, stopCh,
                       disconnectedCh, connVars,
                         workVars, nextBatch, size, dequeues, acked, observed, atClose,
                         sdVars, rpc, panicked>>

\* ------------------------------- exportBatches / exportLogsInternal
\* exportBatches 281-288: exportLogsInternal returned err for batch b; the
\* counter of the outcome is increased by len(batch), the worker loops
Finish(w, b, err) ==
  /\ wpc' = [wpc EXCEPT ![w] = "recv"]
  /\ wcur' = [wcur EXCEPT ![w] = 0]
  /\ wctx' = [wctx EXCEPT ![w] = FALSE]
  /\ werr' = [werr EXCEPT ![w] = "nil"]
  /\ observed' = [observed EXCEPT ![b] =
                    Append(@, IF err # "nil" THEN "async_failed"
                              ELSE "async_success")]

\* a receive that leaves the batch in the buffer
ReceivedKept(q) == q

\* exportBatches 278: what the receive leaves in the channel buffer
Received(q) == Tail(q)

\* exportBatches 278: receive from logsBatchCh; exportLogsInternal 137-150
\* for an empty batch returns nil at once
WRecv(w) ==
  /\ Running
  /\ UNCHANGED retryVars
  /\ wpc[w] = "recv"
  /\ logsBatchCh # <<>>
  /\ LET b == Head(logsBatchCh) IN
       /\ logsBatchCh' = Received(logsBatchCh)
       /\ dequeues' = [dequeues EXCEPT ![b] = @ + 1]
       /\ IF size[b] = 0
          THEN Finish(w, b, "nil")
          ELSE /\ wpc' = [wpc EXCEPT ![w] = "connected"]
               /\ wcur' = [wcur EXCEPT ![w] = b]
               /\ wctx' = [wctx EXCEPT ![w] = FALSE]
               /\ UNCHANGED <<werr, observed>>
  /\ UNCHANGED <<cfgVars, calls, startVars, chMade, chClosed, stopCh,
                 disconnectedCh, connVars, wait, whandle,
                 nextBatch, size, ppc, pret, acked, atClose, sdVars, rpc, panicked>>

\* exportBatches 278, Start 225: the range loop ends on the closed and
\* drained channel, the deferred e.wait.Done() runs
WExit(w) ==
  /\ Running
  /\ UNCHANGED retryVars
  /\ wpc[w] = "recv"
  /\ logsBatchCh = <<>>
  /\ chClosed
  /\ wpc' = [wpc EXCEPT ![w] = "exited"]
  /\ wait' = wait - 1
  /\ UNCHANGED <<cfgVars, calls, startVars, chanVars, connVars, wcur, wctx, werr,
                 whandle, batchVars, sdVars, rpc, panicked>>

\* exportLogsInternal 152-154: the health check
WConnected(w) ==
  /\ Running
  /\ UNCHANGED retryVars
  /\ wpc[w] = "connected"
  /\ IF connected
     THEN /\ wpc' = [wpc EXCEPT ![w] = "select"]
          /\ UNCHANGED <<wcur, wctx, werr, observed>>
     ELSE Finish(w, wcur[w], "errDisconnected")
  /\ UNCHANGED <<cfgVars, calls, startVars, chanVars, connVars, wait, whandle,
                 nextBatch, size, ppc, pret, dequeues, acked,
                 atClose, sdVars, rpc, panicked>>

\* exportLogsInternal 140-146: the goroutine that cancels the attempt's
\* context once stopCh is closed
WatcherCancel(w) ==
  /\ Running
  /\ UNCHANGED retryVars
  /\ wpc[w] \in {"connected", "select", "rlock", "rpc"}
  /\ stopCh
  /\ ~wctx[w]
  /\ wctx' = [wctx EXCEPT ![w] = TRUE]
  /\ UNCHANGED <<cfgVars, calls, startVars, chanVars, connVars, wait, wpc, wcur,
                 werr, whandle, batchVars, sdVars, rpc, panicked>>

\* exportLogsInternal 156-161: the select with a default branch
WSelect(w) ==
  /\ Running
  /\ UNCHANGED retryVars
  /\ wpc[w] = "select"
  /\ \/ /\ stopCh
        /\ Finish(w, wcur[w], "errStopped")
     \/ /\ wctx[w]
        /\ Finish(w, wcur[w], "errContextCanceled")
     \/ /\ ~stopCh
        /\ ~wctx[w]
        /\ wpc' = [wpc EXCEPT ![w] = "rlock"]
        /\ UNCHANGED <<wcur, wctx, werr, observed>>
  /\ UNCHANGED <<cfgVars, calls, startVars, chanVars, connVars, wait, whandle,
                 nextBatch, size, ppc, pret, dequeues, acked,
                 atClose, sdVars, rpc, panicked>>

\* exportLogsInternal 162-166: e.mu.RLock(), then requestFunc issues the
\* Export RPC on e.logExporter (the default requestFunc, newConfig 76,
\* calls it once); a nil e.logExporter is a nil dereference
WRLock(w) ==
  /\ Running
  /\ UNCHANGED retryVars
  /\ wpc[w] = "rlock"
  /\ CanRLock
  /\ IF grpcClientConn = 0
     THEN Crash("nil pointer dereference")
     ELSE /\ mureaders' = mureaders \cup {w}
          /\ wpc' = [wpc EXCEPT ![w] = "rpc"]
          /\ whandle' = [whandle EXCEPT ![w] = grpcClientConn]
          /\ UNCHANGED <<cfgVars, calls, startVars, chanVars, lastConnectErr,
                         grpcClientConn, nextHandle, closedHandles, cn,
                         wait, wcur, wctx, werr, nextBatch, size, ppc, pret,
                         dequeues, acked, observed, atClose, sdVars, rpc, panicked>>

\* an attempt that is treated as failed whatever the RPC returned
DeliveryFailedAlways(err) == TRUE

\* exportLogsInternal 173: `if err != nil`
DeliveryFailed(err) == err # "nil"

\* exportLogsInternal 167-177: the Export RPC returned err; e.mu.RUnlock;
\* nil ends the attempt, an error goes on to setStateDisconnected
RpcReturns(w, err) ==
  /\ mureaders' = mureaders \ {w}
  /\ whandle' = [whandle EXCEPT ![w] = 0]
  /\ IF ~DeliveryFailed(err)
     THEN Finish(w, wcur[w], "nil")
     ELSE /\ wpc' = [wpc EXCEPT ![w] = "discStore"]
          /\ werr' = [werr EXCEPT ![w] = err]
          /\ UNCHANGED <<wcur, wctx, observed>>

\* the collector acknowledges the batch (status OK, 167-168)
CollectorAck(w) ==
  /\ Running
  /\ UNCHANGED retryVars
  /\ wpc[w] = "rpc"
  /\ whandle[w] \notin closedHandles
  /\ acked' = [acked EXCEPT ![wcur[w]] = TRUE]
  /\ RpcReturns(w, "nil")
  /\ UNCHANGED <<cfgVars, calls, startVars, chanVars, lastConnectErr,
                 grpcClientConn, nextHandle, closedHandles, cn, wait,
                 nextBatch, size, ppc, pret, dequeues, atClose, sdVars, rpc, panicked>>

\* the collector or the transport fails the RPC (170)
CollectorFail(w) ==
  /\ Running
  /\ UNCHANGED retryVars
  /\ wpc[w] = "rpc"
  /\ RpcReturns(w, "rpcErr")
  /\ UNCHANGED <<cfgVars, calls, startVars, chanVars, lastConnectErr,
                 grpcClientConn, nextHandle, closedHandles, cn, wait,
                 nextBatch, size, ppc, pret, dequeues, acked,
                 atClose, sdVars, rpc, panicked>>

\* the RPC is aborted: its context was cancelled (144) or its connection
\* was closed under it
RpcAbort(w) ==
  /\ Running
  /\ UNCHANGED retryVars
  /\ wpc[w] = "rpc"
  /\ wctx[w] \/ whandle[w] \in closedHandles
  /\ RpcReturns(w, "rpcErr")
  /\ UNCHANGED <<cfgVars, calls, startVars, chanVars, lastConnectErr,
                 grpcClientConn, nextHandle, closedHandles, cn, wait,
                 nextBatch, size, ppc, pret, dequeues, acked,
                 atClose, sdVars, rpc, panicked>>

\* exportLogsInternal 174 -> setStateDisconnected 348: the store
WDiscStore(w) ==
  /\ Running
  /\ UNCHANGED retryVars
  /\ wpc[w] = "discStore"
  /\ saveLastConnectError(werr[w])
  /\ wpc' = [wpc EXCEPT ![w] = "discSend"]
  /\ UNCHANGED <<cfgVars, calls, startVars, chanVars, grpcClientConn, nextHandle,
                 closedHandles, mureaders, cn, wait, wcur, wctx, werr,
                 whandle, batchVars, sdVars, rpc, panicked>>

\* setStateDisconnected 349-352, exportLogsInternal 175, exportBatches
\* 282-288: the non-blocking send, then the failure is counted
WDiscSend(w) ==
  /\ Running
  /\ UNCHANGED retryVars
  /\ wpc[w] = "discSend"
  /\ disconnectedCh' = SignalDisconnected(disconnectedCh)
  /\ Finish(w, wcur[w], werr[w])
  /\ UNCHANGED <<cfgVars, calls, startVars, logsBatchCh, chMade, chClosed,
                 stopCh, connVars, wait, whandle, nextBatch, size, ppc,
                 pret, dequeues, acked, atClose,
                 sdVars, rpc, panicked>>


\* ---------------------------------------------------- Shutdown (241-275)
\* a Shutdown that goes on whatever it read in e.started
ShutdownProceedsAlways(st) == TRUE

\* Shutdown 247-249: `if !started { return nil }`
ShutdownProceeds(st) == st

\* Shutdown 242-249: cc and started are read under RLock; a not started
\* exporter returns nil
ShutdownCall(s) ==
  /\ Running
  /\ UNCHANGED retryVars
  /\ sdpc[s] = "idle"
  /\ \A s2 \in ShutdownCallers : s2 < s => sdpc[s2] # "idle"
  /\ CanRLock
  /\ calls + concurrency < MaxGoroutines
  /\ calls' = calls + 1
  /\ sdcc' = [sdcc EXCEPT ![s] = grpcClientConn]
  /\ sdstarted' = [sdstarted EXCEPT ![s] = started]
  /\ sdlate' = [sdlate EXCEPT ![s] =
                  \E c \in StartCallers : startRet[c] = "nil"]
  /\ IF ShutdownProceeds(started)
     THEN /\ sdpc' = [sdpc EXCEPT ![s] = "closeQueue"]
          /\ UNCHANGED sdret
     ELSE /\ sdpc' = [sdpc EXCEPT ![s] = "done"]
          /\ sdret' = [sdret EXCEPT ![s] = "nil"]
  /\ UNCHANGED <<cfgVars, startVars, chanVars, connVars, workVars,
                 batchVars, sderr, sdctx, rpc, panicked>>

\* Shutdown 251: close(e.logsBatchCh); closing a closed channel panics
ShutdownCloseQueue(s) ==
  /\ Running
  /\ UNCHANGED retryVars
  /\ sdpc[s] = "closeQueue"
  /\ IF chClosed
     THEN Crash("close of closed channel logsBatchCh")
     ELSE /\ chClosed' = TRUE
          /\ atClose' = {logsBatchCh[i] : i \in 1..Len(logsBatchCh)}
          /\ sdpc' = [sdpc EXCEPT ![s] = "wait"]
          /\ UNCHANGED <<cfgVars, calls, startVars, logsBatchCh, chMade, stopCh,
                         disconnectedCh, connVars, workVars,
                         nextBatch, size, ppc, pret, dequeues, acked, observed, sdcc,
                         sdstarted, sdlate, sderr, sdret, sdctx,
                         rpc, panicked>>

\* sync.WaitGroup.Wait returns when the counter is zero
WaitReturns(n) == n = 0

\* Shutdown 254: e.wait.Wait() returns
ShutdownWait(s) ==
  /\ Running
  /\ UNCHANGED retryVars
  /\ sdpc[s] = "wait"
  /\ WaitReturns(wait)
  /\ sdpc' = [sdpc EXCEPT ![s] = "closeConn"]
  /\ UNCHANGED <<cfgVars, calls, startVars, chanVars, connVars, workVars,
                 nextBatch, size, ppc, pret, dequeues, acked,
                 observed, atClose, sdcc,
                 sdstarted, sdlate, sderr, sdret, sdctx, rpc, panicked>>

\* the handle Shutdown closes: the cc it read on entry (243, 256-258)
HandleToClose(cc, cur) == cc

\* grpc.ClientConn.Close: nil the first time, ErrClientConnClosing after
CloseResult(h) == IF h \in closedHandles THEN "ErrClientConnClosing" ELSE "nil"

\* Shutdown 255-259: cc.Close() when cc is not nil
ShutdownCloseConn(s) ==
  /\ Running
  /\ UNCHANGED retryVars
  /\ sdpc[s] = "closeConn"
  /\ LET h == HandleToClose(sdcc[s], grpcClientConn) IN
       IF h # 0
       THEN /\ sderr' = [sderr EXCEPT ![s] = CloseResult(h)]
            /\ closedHandles' = closedHandles \cup {h}
       ELSE UNCHANGED <<sderr, closedHandles>>
  /\ sdpc' = [sdpc EXCEPT ![s] = "lock"]
  /\ UNCHANGED <<cfgVars, calls, startVars, chanVars, lastConnectErr,
                 grpcClientConn, nextHandle, mureaders, cn, workVars,
                 batchVars, sdcc, sdstarted, sdlate, sdret, sdctx, rpc,
                 panicked>>

\* Shutdown 262-264: e.mu.Lock() is called; granted at once when no
\* reader holds the lock (started = false), otherwise the caller parks
ShutdownLock(s) ==
  /\ Running
  /\ UNCHANGED retryVars
  /\ sdpc[s] = "lock"
  /\ IF CanLock
     THEN /\ started' = FALSE
          /\ sdpc' = [sdpc EXCEPT ![s] = "closeStop"]
     ELSE /\ sdpc' = [sdpc EXCEPT ![s] = "lockWait"]
          /\ UNCHANGED started
  /\ UNCHANGED <<cfgVars, calls, startOnce, startpc, startRet, workersLaunched,
                 reconnLaunches, initCount, chanVars, connVars, workVars,
                 batchVars, sdcc, sdstarted, sdlate, sderr, sdret, sdctx, rpc,
                 panicked>>

\* Shutdown 262-264: the parked e.mu.Lock() is granted
ShutdownLockWait(s) ==
  /\ Running
  /\ UNCHANGED retryVars
  /\ sdpc[s] = "lockWait"
  /\ CanLock
  /\ started' = FALSE
  /\ sdpc' = [sdpc EXCEPT ![s] = "closeStop"]
  /\ UNCHANGED <<cfgVars, calls, startOnce, startpc, startRet, workersLaunched,
                 reconnLaunches, initCount, chanVars, connVars, workVars,
                 batchVars, sdcc, sdstarted, sdlate, sderr, sdret, sdctx, rpc,
                 panicked>>

\* Shutdown 265, closeStopCh 235-237: close(e.stopCh)
ShutdownCloseStop(s) ==
  /\ Running
  /\ UNCHANGED retryVars
  /\ sdpc[s] = "closeStop"
  /\ IF stopCh
     THEN Crash("close of closed channel stopCh")
     ELSE /\ stopCh' = TRUE
          /\ sdpc' = [sdpc EXCEPT ![s] = "select"]
          /\ UNCHANGED <<cfgVars, calls, startVars, logsBatchCh, chMade, chClosed,
                         disconnectedCh, connVars, workVars,
                         batchVars, sdcc, sdstarted, sdlate, sderr, sdret, sdctx,
                         rpc, panicked>>

\* Shutdown 269, 274 with indefiniteBackgroundConnection 295-297: the
\* reconnector's deferred send on the unbuffered
\* backgroundConnectionDoneCh meets Shutdown's receive; Shutdown returns err
ShutdownRecvDone(s) ==
  /\ Running
  /\ UNCHANGED retryVars
  /\ sdpc[s] = "select"
  /\ rpc = "sendDone"
  /\ rpc' = "exited"
  /\ sdpc' = [sdpc EXCEPT ![s] = "done"]
  /\ sdret' = [sdret EXCEPT ![s] = sderr[s]]
  /\ UNCHANGED <<cfgVars, calls, startVars, chanVars, connVars, workVars,
                 batchVars, sdcc, sdstarted, sdlate, sderr, sdctx, panicked>>

\* the deadline of the ctx given to Shutdown has elapsed when Shutdown is
\* at the select of 268-272: it elapses there, or it had elapsed before
\* (Shutdown does not look at ctx before that select, so an earlier
\* deadline, even one elapsed at the call, shows only here)
DeadlineElapses(s) ==
  /\ Running
  /\ UNCHANGED retryVars
  /\ sdpc[s] = "select"
  /\ ~sdctx[s]
  /\ sdctx' = [sdctx EXCEPT ![s] = TRUE]
  /\ UNCHANGED <<cfgVars, calls, startVars, chanVars, connVars, workVars,
                 batchVars, sdpc, sdcc, sdstarted, sdlate, sderr, sdret, rpc,
                 panicked>>

\* a select case that is ready whatever the state of the context
DoneAlwaysReady(done) == TRUE

\* Shutdown 270: the case <-ctx.Done() is ready once ctx is done
DoneReady(done) == done

\* Shutdown 270-271: ctx.Done() is ready, the select takes that case (when
\* the reconnector's send is ready too the select picks either case),
\* Shutdown returns ctx.Err()
ShutdownCtxDone(s) ==
  /\ Running
  /\ UNCHANGED retryVars
  /\ sdpc[s] = "select"
  /\ DoneReady(sdctx[s])
  /\ sdpc' = [sdpc EXCEPT ![s] = "done"]
  /\ sdret' = [sdret EXCEPT ![s] = "ctxErr"]
  /\ UNCHANGED <<cfgVars, calls, startVars, chanVars, connVars, workVars,
                 batchVars, sdcc, sdstarted, sdlate, sderr, sdctx, rpc,
                 panicked>>

\* ------------------------------------------------------ specification
Next ==
  \/ \E t \in ConnThreads : EcRead(t)
  \/ \E t \in ConnThreads : EcLock(t)
  \/ \E t \in ConnThreads : EcWait(t)
  \/ \E s \in StartCallers : StartCall(s)
  \/ \E s \in StartCallers : StartOnceWait(s)
  \/ \E s \in StartCallers : StartSetState(s)
  \/ \E s \in StartCallers : StartDiscSend(s)
  \/ \E s \in StartCallers : StartGoReconn(s)
  \/ \E s \in StartCallers : StartGoWorker(s)
  \/ \E s \in StartCallers : StartReturn(s)
  \/ ReconnSelect
  \/ ReconnSetState
  \/ ReconnDiscSend
  \/ ReconnSleep
  \/ \E b \in Batches, n \in 0..MaxBatchLen : ExportLogs(b, n)
  \/ \E b \in Batches : ExportLogsWake(b)
  \/ \E w \in Workers : WRecv(w)
  \/ \E w \in Workers : WExit(w)
  \/ \E w \in Workers : WConnected(w)
  \/ \E w \in Workers : WatcherCancel(w)
  \/ \E w \in Workers : WSelect(w)
  \/ \E w \in Workers : WRLock(w)
  \/ \E w \in Workers : CollectorAck(w)
  \/ \E w \in Workers : CollectorFail(w)
  \/ \E w \in Workers : RpcAbort(w)
  \/ \E w \in Workers : WDiscStore(w)
  \/ \E w \in Workers : WDiscSend(w)
  \/ \E s \in ShutdownCallers : ShutdownCall(s)
  \/ \E s \in ShutdownCallers : ShutdownCloseQueue(s)
  \/ \E s \in ShutdownCallers : ShutdownWait(s)
  \/ \E s \in ShutdownCallers : ShutdownCloseConn(s)
  \/ \E s \in ShutdownCallers : ShutdownLock(s)
  \/ \E s \in ShutdownCallers : ShutdownLockWait(s)
  \/ \E s \in ShutdownCallers : ShutdownCloseStop(s)
  \/ \E s \in ShutdownCallers : ShutdownRecvDone(s)
  \/ \E s \in ShutdownCallers : DeadlineElapses(s)
  \/ \E s \in ShutdownCallers : ShutdownCtxDone(s)

Spec == Init /\ [][Next]_vars

TypeOK ==
  /\ concurrency \in 1..MaxConcurrency
  /\ Len(logsBatchCh) <= QueueCap(concurrency)
  /\ disconnectedCh \in 0..1
  /\ wait \in 0..Cardinality(Workers)
  /\ grpcClientConn \in 0..NumHandles

\* the steps of the program's own goroutines; the calls made by the
\* application, the collector's answers and the caller's deadline are
\* the environment's
ConnStep(t) == EcRead(t) \/ EcLock(t) \/ EcWait(t)
StartStep(s) ==
  \/ StartOnceWait(s) \/ StartSetState(s) \/ StartDiscSend(s)
  \/ StartGoReconn(s) \/ StartGoWorker(s) \/ StartReturn(s)
ReconnStep == ReconnSelect \/ ReconnSetState \/ ReconnDiscSend \/ ReconnSleep
WorkerStep(w) ==
  \/ WRecv(w) \/ WExit(w) \/ WConnected(w) \/ WatcherCancel(w)
  \/ WSelect(w) \/ WRLock(w) \/ RpcAbort(w) \/ WDiscStore(w) \/ WDiscSend(w)
ShutdownStep(s) ==
  \/ ShutdownCloseQueue(s) \/ ShutdownWait(s) \/ ShutdownCloseConn(s)
  \/ ShutdownLock(s) \/ ShutdownLockWait(s) \/ ShutdownCloseStop(s)
  \/ ShutdownRecvDone(s)

\* the Go scheduler runs every runnable goroutine eventually; the
\* collector need not answer, the caller's deadline need not elapse and
\* the select of Shutdown need not take the ctx.Done() case
Fairness ==
  /\ \A t \in ConnThreads : WF_vars(ConnStep(t))
  /\ \A s \in StartCallers : WF_vars(StartStep(s))
  /\ WF_vars(ReconnStep)
  /\ \A w \in Workers : WF_vars(WorkerStep(w))
  /\ \A s \in ShutdownCallers : WF_vars(ShutdownStep(s))
  /\ \A b \in Batches : WF_vars(ExportLogsWake(b))

FairSpec == Init /\ [][Next]_vars /\ Fairness

\* ------------------------------------------- retryable (448-474)
\* the status codes of google.golang.org/grpc/codes
Codes ==
  {"OK", "Canceled", "Unknown", "InvalidArgument", "DeadlineExceeded",
   "NotFound", "AlreadyExists", "PermissionDenied", "ResourceExhausted",
   "FailedPrecondition", "Aborted", "OutOfRange", "Unimplemented",
   "Internal", "Unavailable", "DataLoss", "Unauthenticated"}

\* a detail of a status: an errdetails.RetryInfo with its RetryDelay (0
\* also stands for a RetryInfo without RetryDelay, whose AsDuration is 0)
\* or a message of another type
Details ==
  [kind : {"RetryInfo"}, delay : 0..MaxDelay]
    \cup [kind : {"Other"}, delay : {0}]

\* the lists s.Details() can be
RECURSIVE DetailSeqsUpTo(_)
DetailSeqsUpTo(n) ==
  IF n = 0 THEN {<<>>}
  ELSE LET shorter == DetailSeqsUpTo(n - 1) IN
         shorter \cup {Append(ds, d) : ds \in shorter, d \in Details}

DetailSeqs == DetailSeqsUpTo(MaxDetails)

\* a switch that lacks the case codes.DataLoss
RetryableCodesWithoutDataLoss ==
  {"Canceled", "DeadlineExceeded", "ResourceExhausted", "Aborted",
   "OutOfRange", "Unavailable"}

\* retryable 450-457: the cases of the switch on s.Code()
RetryableCodes ==
  {"Canceled", "DeadlineExceeded", "ResourceExhausted", "Aborted",
   "OutOfRange", "Unavailable", "DataLoss"}

\* throttleDelay 467-474: the RetryDelay of the first detail that is a
\* RetryInfo, 0 when there is none
RECURSIVE throttleDelay(_)
throttleDelay(details) ==
  IF details = <<>> THEN 0
  ELSE IF Head(details).kind = "RetryInfo" THEN Head(details).delay
  ELSE throttleDelay(Tail(details))

\* retryable 448-463
retryable(code, details) ==
  IF code \in RetryableCodes
  THEN [ok |-> TRUE, wait |-> throttleDelay(details)]
  ELSE [ok |-> FALSE, wait |-> 0]

\* an error with any status code and any details is given to retryable
RetryInit ==
  /\ concurrency = 1
  /\ Fresh
  /\ calls = 0
  /\ panicked = "none"
  /\ errCode \in Codes
  /\ errDetails \in DetailSeqs
  /\ retried = FALSE
  /\ retOk = FALSE
  /\ retWait = 0

\* retryable(err) is called and returns
RetryableCall ==
  /\ ~retried
  /\ retried' = TRUE
  /\ retOk' = retryable(errCode, errDetails).ok
  /\ retWait' = retryable(errCode, errDetails).wait
  /\ UNCHANGED <<errCode, errDetails, cfgVars, startVars, chanVars,
                 connVars, workVars, batchVars, sdVars, rpc, calls,
                 panicked>>

RetryNext == RetryableCall

RetrySpec == RetryInit /\ [][RetryNext]_vars

\* ------------------------------------------------------------- properties
InFlight == {w \in Workers : wpc[w] = "rpc"}
WorkersRunning == {w \in Workers : wpc[w] \notin {"off", "exited"}}
Buffered == {logsBatchCh[i] : i \in 1..Len(logsBatchCh)}
\* a Shutdown call that found the exporter started
RealShutdown(s) == sdstarted[s]
PastWait(s) ==
  sdpc[s] \in {"closeConn", "lock", "lockWait", "closeStop", "select", "done"}
\* a Shutdown call made after Start returned is in progress
ShutdownBegun ==
  \E s \in ShutdownCallers : RealShutdown(s) /\ sdlate[s] /\ sdpc[s] # "done"

\* C1: ExportLogs never blocks its caller: no call is ever parked in the
\* send on logsBatchCh; on a full queue the call returns at once.
C1_SubmitNeverBlocks == \A b \in Batches : ppc[b] # "blocked"

\* C2: an ExportLogs call made after Shutdown closed the intake queue does
\* not panic (it returns a stopped error and enqueues nothing).
C2_NoPanicAfterClose == panicked # SendOnClosedMsg

\* C3: the number of Export RPCs in flight at the same time never exceeds
\* the configured concurrency.
C3_BoundedInFlight == Cardinality(InFlight) <= concurrency

C3_Witness ==
  /\ concurrency > 1
  /\ Cardinality(InFlight) = concurrency
  /\ \E s \in StartCallers : startRet[s] = "nil"

\* C4: no duplicate delivery: a batch is received from the queue at most
\* once and observed at most once; a batch that was received is never in
\* the queue again; an acknowledged batch is held by no worker any more,
\* so no further attempt is made for it.
C4_NoDuplicateDelivery ==
  \A b \in Batches :
    /\ dequeues[b] <= 1
    /\ Len(observed[b]) <= 1
    /\ dequeues[b] = 1 => b \notin Buffered
    /\ acked[b] => \A w \in Workers : wcur[w] # b
    /\ \A i, j \in 1..Len(logsBatchCh) :
         logsBatchCh[i] = logsBatchCh[j] => i = j

C4_Witness ==
  \E b1, b2 \in Batches :
    /\ acked[b1] /\ dequeues[b1] = 1 /\ observed[b1] = <<"async_success">>
    /\ ~acked[b2] /\ dequeues[b2] = 1 /\ observed[b2] = <<"async_failed">>
    /\ size[b2] > 0

\* C5: once a Shutdown of a started exporter has returned nil, no export
\* worker is running and no Export RPC is in flight.
C5_GracefulDrain ==
  \A s \in ShutdownCallers :
    (RealShutdown(s) /\ sdpc[s] = "done" /\ sdret[s] = "nil")
      => (WorkersRunning = {} /\ InFlight = {})

\* C6: when Shutdown's wait for the workers has completed, every batch
\* that was in the intake queue when Shutdown closed it has been received
\* by a worker and observed exactly once.
C6_DrainedBeforeWaitReturns ==
  \A s \in ShutdownCallers :
    (RealShutdown(s) /\ PastWait(s))
      => \A b \in atClose : dequeues[b] = 1 /\ Len(observed[b]) = 1

\* C7: an Export RPC that is outstanding while a Shutdown of the running
\* exporter is in progress is eventually aborted, even when the collector
\* never answers.
C7_ShutdownAbortsOutstanding ==
  \A w \in Workers : (ShutdownBegun /\ wpc[w] = "rpc") ~> (wpc[w] # "rpc")

\* C8: at the moment a Shutdown of a running exporter (one whose Start
\* has returned) returns nil, the current connection handle, if there is
\* one, is closed.
C8_CurrentHandleClosed ==
  [][\A s \in ShutdownCallers :
       (RealShutdown(s) /\ sdlate[s] /\ sdpc[s] # "done"
          /\ sdpc'[s] = "done" /\ sdret'[s] = "nil")
         => (grpcClientConn' = 0 \/ grpcClientConn' \in closedHandles')]_vars

\* C9: concurrent Shutdown calls never panic: neither logsBatchCh nor
\* stopCh is closed twice.
C9_ConcurrentShutdownSafe ==
  panicked \notin {"close of closed channel logsBatchCh",
                   "close of closed channel stopCh"}

\* C10 as stated: every Start call returns the outcome of the first one.
C10_SameOutcome ==
  \A s1, s2 \in StartCallers :
    (startRet[s1] # "none" /\ startRet[s2] # "none")
      => startRet[s1] = startRet[s2]

\* C10 amended: Start's body runs once: the initialisation runs at most
\* once, at most one reconnector and at most `concurrency` workers are
\* launched over all Start calls; the first call returns nil and every
\* later call returns errAlreadyStarted.
C10_StartIdempotent ==
  /\ initCount <= 1
  /\ reconnLaunches <= 1
  /\ Cardinality({w \in Workers : wpc[w] # "off"}) <= concurrency
  /\ \A s \in StartCallers :
       startRet[s] \in (IF s = 1 THEN {"none", "nil"}
                        ELSE {"none", "errAlreadyStarted"})

C10_Witness ==
  /\ startRet[1] = "nil"
  /\ \E s \in StartCallers : s > 1 /\ startRet[s] = "errAlreadyStarted"
  /\ Cardinality({w \in Workers : wpc[w] # "off"}) = concurrency

\* C11: the not-started -> running transition happens once: the
\* initialisation runs at most once, at most one reconnector and at most
\* `concurrency` workers are ever launched, exactly that many once Start
\* has returned nil, and once a Shutdown has set started to false no
\* Start sets it again.
C11_StartedOnce ==
  /\ initCount <= 1
  /\ reconnLaunches <= 1
  /\ Cardinality({w \in Workers : wpc[w] # "off"}) <= concurrency
  /\ (\E c \in StartCallers : startRet[c] = "nil")
       => /\ reconnLaunches = 1
          /\ Cardinality({w \in Workers : wpc[w] # "off"}) = concurrency
  /\ (\E s \in ShutdownCallers :
        RealShutdown(s) /\ sdpc[s] \in {"closeStop", "select", "done"})
       => ~started

C11_Witness ==
  /\ startRet[1] = "nil"
  /\ \E s \in ShutdownCallers : RealShutdown(s) /\ sdpc[s] = "done"
  /\ \E c \in StartCallers : c > 1 /\ startRet[c] = "errAlreadyStarted"
  /\ ~started
  /\ reconnLaunches = 1

\* a step with which the Shutdown call s that found the exporter started
\* leaves the select of 268-272 and returns
LeavesSelect(s) ==
  RealShutdown(s) /\ sdpc[s] = "select" /\ sdpc'[s] = "done"

\* C12 as stated: a Shutdown whose deadline has elapsed while the
\* reconnector's confirmation has not been received returns the context
\* error; one that receives the confirmation before its deadline elapses
\* returns the result of closing the connection.
C12_DeadlineFirst ==
  [][\A s \in ShutdownCallers :
       LeavesSelect(s) =>
         /\ sdctx[s] => sdret'[s] = "ctxErr"
         /\ ~sdctx[s] => sdret'[s] = sderr[s]]_vars

\* C12 amended: Shutdown returns the context error only when its deadline
\* has elapsed, and then without receiving the confirmation; otherwise it
\* receives the reconnector's confirmation and returns the result of
\* closing the connection.  It always returns that result when the
\* deadline has not elapsed and always the context error when no
\* confirmation is ready; when the deadline has elapsed and the
\* confirmation is ready, either outcome is possible.
C12_DeadlineOrConfirmation ==
  [][\A s \in ShutdownCallers :
       LeavesSelect(s) =>
         /\ \/ /\ sdret'[s] = "ctxErr"
               /\ sdctx[s]
               /\ rpc' = rpc
            \/ /\ sdret'[s] = sderr[s]
               /\ rpc = "sendDone"
               /\ rpc' = "exited"
         /\ ~sdctx[s] => sdret'[s] = sderr[s]
         /\ rpc # "sendDone" => sdret'[s] = "ctxErr"]_vars

\* a Shutdown whose deadline had elapsed received the confirmation and
\* returned the result of the close
C12_Witness ==
  \E s \in ShutdownCallers :
    /\ RealShutdown(s)
    /\ sdpc[s] = "done"
    /\ sdctx[s]
    /\ sdret[s] = sderr[s]
    /\ rpc = "exited"

\* the workers launched so far
Launched == {w \in Workers : wpc[w] # "off"}

\* C13: the first connect of Start is best-effort.  After a failed first
\* connect the health state is disconnected and, when the reconnector is
\* launched, the disconnect signal is pending; Start goes on to launch
\* the reconnector and then all `concurrency` workers and returns nil,
\* never anything else.  The order is initialisation, first connect,
\* reconnector, workers: no reconnector runs before the first connect's
\* outcome is recorded and no worker before the reconnector is launched.
C13_BestEffortFirstConnect ==
  [][\A s \in StartCallers :
       /\ startpc'[s] = "discSend"
            => lastConnectErr' = "err"
       /\ (startpc'[s] = "goReconn" /\ lastConnectErr' = "err")
            => disconnectedCh' = 1
       /\ startpc'[s] \in {"connect", "discSend", "goReconn"}
            => /\ initCount' = 1
               /\ reconnLaunches' = 0
               /\ rpc' = "off"
               /\ \A w \in Workers : wpc'[w] = "off"
       /\ startpc'[s] = "goWorkers" => reconnLaunches' = 1
       /\ (\E w \in Workers : wpc'[w] # "off") => reconnLaunches' = 1
       /\ (startpc[s] \in {"connect", "discSend", "goReconn", "goWorkers"}
             /\ startpc'[s] = "done")
            => /\ startpc[s] = "goWorkers"
               /\ startRet'[s] = "nil"
               /\ reconnLaunches' = 1
               /\ Cardinality({w \in Workers : wpc'[w] # "off"})
                    = concurrency]_vars

\* Start has returned nil although no dial ever succeeded; the health
\* state is disconnected, the signal is pending, the reconnector and all
\* workers are launched
C13_Witness ==
  /\ \E s \in StartCallers : startRet[s] = "nil"
  /\ nextHandle = 0
  /\ lastConnectErr = "err"
  /\ disconnectedCh = 1
  /\ reconnLaunches = 1
  /\ rpc = "select"
  /\ Cardinality(Launched) = concurrency

\* a Shutdown call that found the exporter not started has returned
NoOpShutdown(s) == sdpc[s] = "done" /\ ~sdstarted[s]

\* C14: Shutdown on an exporter that is not started is a no-op: the call
\* returns nil at once and leaves the exporter's state, channels,
\* connection, workers and reconnector as they were; a Start made after
\* it starts the exporter as usual.
C14_ShutdownNotStartedNoOp ==
  [][\A s \in ShutdownCallers :
       /\ (sdpc[s] = "idle" /\ sdpc'[s] # "idle" /\ ~started)
            => /\ sdpc'[s] = "done"
               /\ sdret'[s] = "nil"
               /\ ~sdstarted'[s]
               /\ UNCHANGED <<startVars, chanVars, connVars, workVars,
                              batchVars, rpc, panicked>>
       /\ (NoOpShutdown(s)' /\ \E c \in StartCallers : startRet'[c] = "nil")
            => /\ initCount' = 1
               /\ reconnLaunches' = 1
               /\ Cardinality({w \in Workers : wpc'[w] # "off"})
                    = concurrency]_vars

\* a Shutdown made before Start returned nil as a no-op, and Start then
\* started the exporter: it is running with all its workers
C14_Witness ==
  /\ \E s \in ShutdownCallers : NoOpShutdown(s) /\ sdret[s] = "nil"
  /\ \A s \in ShutdownCallers : ~sdstarted[s]
  /\ \E c \in StartCallers : startRet[c] = "nil"
  /\ started
  /\ chMade /\ ~chClosed /\ ~stopCh
  /\ Cardinality(Launched) = concurrency
  /\ \A w \in Workers : wpc[w] # "exited"

\* a step that records the outcome of connect(): Start 214-218 or
\* indefiniteBackgroundConnection 325-329
ConnectOutcomeStep ==
  \E t \in ConnThreads : cn[t].at = "ret" /\ cn'[t].at = "off"

\* C15 as stated: the health state changes only in a step that records
\* the outcome of a connect attempt; no step of a worker changes it.
C15_HealthOnlyByConnect ==
  [][(panicked' = "none" /\ lastConnectErr' # lastConnectErr)
       => ConnectOutcomeStep]_vars

\* C15 amended: the health state is written by the outcome of a connect
\* attempt and by a worker whose Export RPC failed: that worker stores
\* the error (disconnected) and then leaves a disconnect signal pending.
\* A successful delivery changes neither the health state nor the signal.
C15_HealthByConnectOrFailedDelivery ==
  [][panicked' = "none" =>
       /\ lastConnectErr' # lastConnectErr
            => \/ ConnectOutcomeStep
               \/ \E w \in Workers :
                    /\ wpc[w] = "discStore"
                    /\ wpc'[w] = "discSend"
                    /\ werr[w] # "nil"
                    /\ lastConnectErr' = "err"
       /\ \A w \in Workers :
            /\ (wpc[w] = "rpc" /\ wpc'[w] \notin {"rpc", "recv"})
                 => wpc'[w] = "discStore" /\ werr'[w] # "nil"
            /\ (wpc[w] = "rpc" /\ wpc'[w] = "recv")
                 => /\ lastConnectErr' = lastConnectErr
                    /\ disconnectedCh' = disconnectedCh
            /\ (wpc[w] = "discStore" /\ wpc'[w] # "discStore")
                 => lastConnectErr' = "err"
            /\ (wpc[w] = "discSend" /\ wpc'[w] # "discSend")
                 => disconnectedCh' = 1]_vars

\* a worker's Export RPC failed on an open connection and the worker has
\* marked the exporter disconnected
C15_Witness ==
  \E w \in Workers :
    /\ wpc[w] = "discSend"
    /\ lastConnectErr = "err"
    /\ grpcClientConn # 0
    /\ grpcClientConn \notin closedHandles
    /\ \A t \in ConnThreads : cn[t].at = "off"

\* C16: a worker that finds the health state disconnected when it checks
\* it for a non-empty batch fails the batch at once (one async_failed
\* observation, the worker is back at the queue) without taking e.mu and
\* without issuing an Export RPC, and that step changes neither the
\* health state, nor the disconnect signal, nor the connection handle.
C16_DisconnectedFailsFast ==
  [][\A w \in Workers :
       (/\ wpc[w] = "connected"
        /\ wpc'[w] # "connected"
        /\ lastConnectErr = "err"
        /\ panicked' = "none")
         => /\ wpc'[w] = "recv"
            /\ size[wcur[w]] > 0
            /\ observed'[wcur[w]] = Append(observed[wcur[w]], "async_failed")
            /\ ~acked'[wcur[w]]
            /\ UNCHANGED <<lastConnectErr, disconnectedCh, grpcClientConn,
                           closedHandles, mureaders, whandle>>]_vars

\* a non-empty batch has been failed although no connection was ever
\* made: the failure can only be the disconnected one
C16_Witness ==
  \E b \in Batches :
    /\ size[b] > 0
    /\ dequeues[b] = 1
    /\ observed[b] = <<"async_failed">>
    /\ nextHandle = 0
    /\ lastConnectErr = "err"
    /\ grpcClientConn = 0

\* the exporter is started and the stop signal has not been emitted
ExporterRunning == Running /\ started /\ ~stopCh

\* the reconnector has received a disconnect signal and has not yet
\* recorded the outcome of the connect it made for it
Redialing == rpc = "connect"

\* a goroutine is inside setStateDisconnected (347-353), between the
\* store of the error and the send of the signal
SignalBeingSent ==
  \/ \E s \in StartCallers : startpc[s] = "discSend"
  \/ rpc = "discSend"
  \/ \E w \in Workers : wpc[w] = "discSend"

\* C17 as stated: in every state of a running exporter whose health state
\* is disconnected, a disconnect signal is pending or the reconnector has
\* consumed one and has not yet recorded the result of its redial.
C17_SignalNeverLost ==
  (ExporterRunning /\ lastConnectErr = "err")
    => (disconnectedCh = 1 \/ Redialing)

\* C17 amended: in every state of a running exporter whose health state
\* is disconnected, a disconnect signal is pending, or the reconnector has
\* consumed one and has not yet recorded the result of its redial, or a
\* goroutine that has just stored the error is about to send the signal.
C17_SignalPendingOrUnderway ==
  (ExporterRunning /\ lastConnectErr = "err")
    => (disconnectedCh = 1 \/ Redialing \/ SignalBeingSent)

\* the health state is disconnected after a failed delivery, the signal
\* has been consumed and the reconnector is redialing
C17_Witness ==
  /\ ExporterRunning
  /\ lastConnectErr = "err"
  /\ disconnectedCh = 0
  /\ Redialing
  /\ ~SignalBeingSent
  /\ grpcClientConn # 0
  /\ \E b \in Batches : observed[b] = <<"async_failed">>

\* the Shutdown call s takes its handle close step (255-259)
CloseConnStep(s) == sdpc[s] = "closeConn" /\ sdpc'[s] = "lock"

\* the Shutdown call s emits the stop signal (265)
CloseStopStep(s) == sdpc[s] = "closeStop" /\ ~stopCh /\ stopCh'

\* C18: Shutdown's steps are ordered and its wait for the workers does
\* not depend on the caller's deadline: whether or not the deadline has
\* elapsed, Shutdown takes its handle close step and emits the stop signal
\* only when no export worker is running, and the stop signal is emitted
\* only by a call that is past its handle close step.
C18_OrderedShutdown ==
  [][/\ \A s \in ShutdownCallers :
          (CloseConnStep(s) \/ CloseStopStep(s)) => WorkersRunning = {}
     /\ (~stopCh /\ stopCh' /\ panicked' = "none")
          => \E s \in ShutdownCallers : CloseStopStep(s)]_vars

\* C19: once the stop signal has been emitted, a reconnector that was
\* launched terminates: it does not stay blocked for ever, also when
\* Shutdown returned the context error without receiving its confirmation.
C19_ReconnectorTerminates ==
  (stopCh /\ rpc # "off") ~> (rpc = "exited" \/ ~Running)

\* C20: once the stop signal has been emitted, a reconnector that is at
\* the select on the disconnect signal (317-323) or at the select of its
\* jittered sleep (335-339) leaves its loop with its next step: it neither
\* starts another dial nor goes round the loop again.
C20_StopEndsReconnector ==
  [][(/\ stopCh
      /\ rpc \in {"select", "sleep"}
      /\ rpc' # rpc
      /\ panicked' = "none")
       => rpc' = "sendDone"]_vars

\* the reconnector records the outcome of a redial that succeeded
RedialSucceeded ==
  rpc = "connect" /\ rpc' # "connect" /\ cn["reconn"].err = "nil"
    /\ panicked' = "none"

\* C21 as stated: after a successful redial the reconnector marks the
\* state connected and goes straight back to waiting for a disconnect
\* signal; it enters the jittered sleep only after a failed redial.
C21_SleepOnlyAfterFailure ==
  [][/\ RedialSucceeded => (lastConnectErr' = "nil" /\ rpc' = "select")
     /\ (rpc # "sleep" /\ rpc' = "sleep") => rpc = "discSend"]_vars

\* C21 amended: after every redial, successful or not, the reconnector
\* takes the jittered sleep before it waits for a disconnect signal
\* again: a successful redial marks the state connected and goes to the
\* sleep, a failed one marks it disconnected, re-arms the signal and goes
\* to the sleep; the wait for a signal is reached only from the sleep
\* (or at launch), and the sleep is left only for that wait or, on the
\* stop signal, for the exit.
C21_SleepAfterEveryRedial ==
  [][panicked' = "none" =>
       /\ RedialSucceeded => (lastConnectErr' = "nil" /\ rpc' = "sleep")
       /\ (rpc = "connect" /\ rpc' # "connect" /\ cn["reconn"].err # "nil")
            => (lastConnectErr' = "err" /\ rpc' = "discSend")
       /\ (rpc = "discSend" /\ rpc' # "discSend")
            => (disconnectedCh' = 1 /\ rpc' = "sleep")
       /\ (rpc # "select" /\ rpc' = "select") => rpc \in {"off", "sleep"}
       /\ (rpc = "sleep" /\ rpc' # "sleep")
            => (rpc' = "select" \/ (stopCh /\ rpc' = "sendDone"))]_vars

\* the reconnector is in the jittered sleep after a successful redial
\* while a new disconnection is already signalled
C21_Witness ==
  /\ rpc = "sleep"
  /\ grpcClientConn # 0
  /\ grpcClientConn \notin closedHandles
  /\ \E w \in Workers : wpc[w] = "discSend" /\ lastConnectErr = "err"
  /\ disconnectedCh = 0
  /\ ~stopCh

\* thread t completes the critical section of enableConnections (418-434)
InstallStep(t) ==
  cn[t].at \in {"ecLock", "ecWait"} /\ cn'[t].at = "ret"
    /\ panicked' = "none"

\* C22: enableConnections swaps the current handle only on a running
\* exporter: the step that installs a handle finds e.started true, makes
\* the new handle the current one and closes the superseded handle, if
\* there is one and it is another handle, and nothing else; on an
\* exporter that is not started the install is rejected with
\* errNotStarted and the current handle and the closed handles stay as
\* they are.
C22_InstallOnlyWhenRunning ==
  [][\A t \in ConnThreads :
       /\ InstallStep(t)
            => /\ started
               /\ grpcClientConn' = cn[t].cc
               /\ cn'[t].err = "nil"
               /\ closedHandles' =
                    closedHandles \cup
                      (IF grpcClientConn \notin {0, cn[t].cc}
                       THEN {grpcClientConn} ELSE {})
       /\ (cn[t].at = "ecRead" /\ cn'[t].at # "ecRead" /\ ~started
             /\ panicked' = "none")
            => /\ cn'[t].at = "ret"
               /\ cn'[t].err = "errNotStarted"
               /\ UNCHANGED <<grpcClientConn, closedHandles>>]_vars

\* the handles that dialToCollector has returned so far
Dialled == 1..nextHandle

\* C23: no connection handle leaks: once a Shutdown of a started exporter
\* has returned nil, every handle that connect() dialled is closed.
C23_NoHandleLeak ==
  (\E s \in ShutdownCallers :
     RealShutdown(s) /\ sdpc[s] = "done" /\ sdret[s] = "nil")
    => Dialled \subseteq closedHandles

\* C24: no Export RPC runs on a closed handle: while a worker's RPC is in
\* flight the handle it uses has not been closed, neither by a swap of
\* enableConnections nor by Shutdown.
C24_NoRpcOnClosedHandle ==
  \A w \in Workers : wpc[w] = "rpc" => whandle[w] \notin closedHandles

\* the positions of the RetryInfo details of the error
HintAt == {i \in 1..Len(errDetails) : errDetails[i].kind = "RetryInfo"}

\* the retry-after hint attached to the error: that of the first RetryInfo
Hint == errDetails[CHOOSE i \in HintAt : \A j \in HintAt : i <= j].delay

\* C25: retryable returns true exactly for the codes Canceled,
\* DeadlineExceeded, ResourceExhausted, Aborted, OutOfRange, Unavailable
\* and DataLoss, then with a wait equal to the attached retry-after hint,
\* zero when none is attached; for every other code it returns false with
\* wait zero, whether or not a hint is attached.
C25_RetryableByCode ==
  retried =>
    /\ retOk <=> errCode \in {"Canceled", "DeadlineExceeded",
                              "ResourceExhausted", "Aborted", "OutOfRange",
                              "Unavailable", "DataLoss"}
    /\ (retOk /\ HintAt # {}) => retWait = Hint
    /\ (retOk /\ HintAt = {}) => retWait = 0
    /\ ~retOk => retWait = 0

\* retryable returned true with the hint of the first of two RetryInfo
\* details that follows a detail of another type
C25_Witness ==
  /\ retried
  /\ errCode = "DataLoss"
  /\ retOk
  /\ Len(errDetails) = 2
  /\ errDetails[1].kind = "Other"
  /\ errDetails[2].kind = "RetryInfo"
  /\ retWait = MaxDelay
  /\ retWait > 0

====
